---- MODULE Spec2Model ----
(***************************************************************************)
(* A word-level model of mm.c, the segregated-free-list allocator.         *)
(*                                                                         *)
(* The heap is the region [HeapLo, mem_brk) of 4-byte words handed out by  *)
(* mem_sbrk.  mem maps the address of a word to its content; a word that   *)
(* still holds what the backing store delivered (fresh) has no entry, so   *)
(* mem is one canonical picture of the whole region.  Every header,        *)
(* footer, list head and free-list "bias" of mm.c is one such word, and    *)
(* every operator below reads and writes them through GET and PUT exactly  *)
(* where the C macros do, so that a footer written into a neighbouring     *)
(* block, or a header wiped by memset, shows up in mem.                    *)
(*                                                                         *)
(* Numbers.  A size_t value v is held as the integer r with                *)
(* v = r mod 2^64 and |r| small: 2^64 - 1 is held as -1.  Sums and         *)
(* differences of such values are then exact modulo 2^64, and ULT is the   *)
(* unsigned comparison.  A u_32 word is held as its value; a store of a    *)
(* value outside 0 .. 2^31-1 leaves the modelled range and ends the run    *)
(* with flt = "range".                                                     *)
(*                                                                         *)
(* Faults.  A load or store outside the region obtained from mem_sbrk      *)
(* (this includes every dereference of NULL) ends the run with             *)
(* flt = "segv"; a list walk that revisits a node, and so never ends,      *)
(* ends it with flt = "hang"; memcpy on overlapping ranges ends it with    *)
(* flt = "ub"; exit(0) in mm_checkheap ends it with flt = "exit".          *)
(***************************************************************************)
EXTENDS Integers, Sequences, FiniteSets, TLC

VARIABLES
    mem,         \* the heap region: word address -> content, where not fresh
    mem_brk,     \* the break of the backing store: end of the region
    heap_listp,  \* static char *heap_listp
    seg_lists,   \* static u_32 *seg_lists
    flt,         \* "none", or the fault (or exit) that ended the run
    mem_max,     \* bytes the backing store is able to hand out in total
    fresh,       \* content of memory mem_sbrk hands out (uninitialised)
    live,        \* payload addresses the caller holds and has not released
    last,        \* the public call that returned last, with its result
    nops         \* number of public calls made

vars == <<mem, mem_brk, heap_listp, seg_lists, flt, mem_max, fresh, live, last, nops>>

(***************************************************************************)
(* Constants of mm.c                                                       *)
(***************************************************************************)
ALIGNMENT == 8
WSIZE == 4
DSIZE == 8
CHUNKSIZE == 4096
LISTNUM == 10
NULL == 0

(***************************************************************************)
(* Bounds of the model                                                     *)
(***************************************************************************)
MaxOps == 4        \* public calls per run
MaxLive == 3       \* pointers the caller holds at once
MaxChunks == 3     \* the largest backing store holds 56 + MaxChunks*CHUNKSIZE bytes

(***************************************************************************)
(* The backing store (memlib): its lowest address.                         *)
(***************************************************************************)
HeapLo == 4096

(***************************************************************************)
(* size_t arithmetic                                                       *)
(***************************************************************************)
ULT(a, b) == IF (a >= 0) <=> (b >= 0) THEN a < b ELSE b < 0
ULE(a, b) == ~ULT(b, a)
UGT(a, b) == ULT(b, a)

ALIGN(p) == (p + (ALIGNMENT - 1)) - ((p + (ALIGNMENT - 1)) % 8)

MAX(x, y) == IF UGT(x, y) THEN x ELSE y
MIN(x, y) == IF UGT(x, y) THEN y ELSE x

PACK(size, alloc) == IF size % 2 = 1 THEN size ELSE size + alloc

RECURSIVE Pow2(_)
Pow2(n) == IF n = 0 THEN 1 ELSE 2 * Pow2(n - 1)

(***************************************************************************)
(* The machine: g = [mem, brk, hl, sl, flt] is the memory, the break, the  *)
(* two globals and the fault flag, threaded through the operators below.   *)
(***************************************************************************)
Valid(g, p) == p % WSIZE = 0 /\ p >= HeapLo /\ p < g.brk

\* The memory m with word p set to val.
Store(m, p, val) ==
    IF val = fresh THEN [q \in (DOMAIN m) \ {p} |-> m[q]]
    ELSE IF p \in DOMAIN m THEN [m EXCEPT ![p] = val]
    ELSE (p :> val) @@ m

\* The content of word p of memory m.
Fetch(m, p) == IF p \in DOMAIN m THEN m[p] ELSE fresh

Fault(g, f) == IF g.flt = "none" THEN [g EXCEPT !.flt = f] ELSE g

\* The loads of the addresses in S: a fault if one is outside the region.
Load(g, S) == IF \A p \in S : Valid(g, p) THEN g ELSE Fault(g, "segv")

GET(g, p) == IF Valid(g, p) THEN Fetch(g.mem, p) ELSE 0

PUT(g, p, val) ==
    IF g.flt # "none" THEN g
    ELSE IF ~Valid(g, p) THEN Fault(g, "segv")
    ELSE IF val < 0 THEN Fault(g, "range")
    ELSE [g EXCEPT !.mem = Store(g.mem, p, val)]

GET_SIZE(g, p) == GET(g, p) - (GET(g, p) % 8)
GET_ALLOC(g, p) == GET(g, p) % 2

HDRP(bp) == bp - WSIZE
FTRP(g, bp) == bp + GET_SIZE(g, HDRP(bp)) - DSIZE

NEXT_BLKP(g, bp) == bp + GET_SIZE(g, bp - WSIZE)
PREV_BLKP(g, bp) == bp - GET_SIZE(g, bp - DSIZE)

PTR2PREVBIAS(bp) == bp
PTR2NEXTBIAS(bp) == bp + WSIZE

PREV_FBP_BIAS(g, bp) == GET(g, PTR2PREVBIAS(bp))
NEXT_FBP_BIAS(g, bp) == GET(g, PTR2NEXTBIAS(bp))

B2P(g, bias) == IF bias > 0 THEN g.hl + bias ELSE NULL
P2B(g, ptr) == ptr - g.hl
SET_BIAS(g, p, bias) == PUT(g, p, bias)

\* &seg_lists[list_index]
SegAddr(g, list_index) == g.sl + WSIZE * list_index

(***************************************************************************)
(* mem_sbrk of the backing store: the region grows by incr bytes and the   *)
(* old break is returned, or nothing changes and -1 is returned.           *)
(***************************************************************************)
SbrkFails(g, incr) == incr < 0 \/ (g.brk - HeapLo) + incr > mem_max

mem_sbrk(g, incr) ==
    IF SbrkFails(g, incr)
    THEN [g |-> g, p |-> -1]
    ELSE [g |-> [g EXCEPT !.brk = g.brk + incr], p |-> g.brk]

(***************************************************************************)
(* The size class of asize: the loop at the head of add_to_list and of     *)
(* remove_from_list.                                                       *)
(***************************************************************************)
RECURSIVE ListIndex(_, _)
ListIndex(asize, list_index) ==
    IF list_index < LISTNUM - 1 /\ UGT(asize, 16 * Pow2(list_index))
    THEN ListIndex(asize, list_index + 1)
    ELSE list_index

(***************************************************************************)
(* while ((ptr != NULL) && (asize > GET_SIZE(HDRP(ptr)))) ptr = next(ptr)  *)
(* the walk along one list used by add_to_list and by malloc.  seen holds  *)
(* the nodes already passed; memory does not change during the walk, so    *)
(* coming back to one of them means the loop never ends.                   *)
(***************************************************************************)
RECURSIVE ScanList(_, _, _, _, _)
ScanList(g, asize, prev_ptr, next_ptr, seen) ==
    IF next_ptr = NULL
    THEN [prev |-> prev_ptr, next |-> NULL, flt |-> "none"]
    ELSE IF ~Valid(g, HDRP(next_ptr))
    THEN [prev |-> prev_ptr, next |-> NULL, flt |-> "segv"]
    ELSE IF ~UGT(asize, GET_SIZE(g, HDRP(next_ptr)))
    THEN [prev |-> prev_ptr, next |-> next_ptr, flt |-> "none"]
    ELSE IF next_ptr \in seen
    THEN [prev |-> prev_ptr, next |-> NULL, flt |-> "hang"]
    ELSE IF ~Valid(g, PTR2NEXTBIAS(next_ptr))
    THEN [prev |-> prev_ptr, next |-> NULL, flt |-> "segv"]
    ELSE ScanList(g, asize, next_ptr, B2P(g, NEXT_FBP_BIAS(g, next_ptr)),
                  seen \cup {next_ptr})

(***************************************************************************)
(* Sequences of statements.  Every operator below takes the machine g as   *)
(* it is before its statements and yields the machine after them, so a     *)
(* macro such as FTRP(bp), which reads the header, is evaluated on the     *)
(* machine of the statement it stands in.                                  *)
(***************************************************************************)
\* The stores PUT(p1, v1); PUT(p2, v2); ... for ws = <<<<p1, v1>>, <<p2, v2>>, ...>>
RECURSIVE Puts(_, _)
Puts(g, ws) ==
    IF ws = << >> THEN g ELSE Puts(PUT(g, ws[1][1], ws[1][2]), Tail(ws))

\* A loop of the program ended with fault f ("none": it ended normally).
FaultIf(g, f) == IF f = "none" THEN g ELSE Fault(g, f)

\* PUT(FTRP(bp), val)
PutFtr(g, bp, val) == PUT(g, FTRP(g, bp), val)

\* PUT(HDRP(bp), val); PUT(FTRP(bp), val)
PutHdrFtr(g, bp, val) == PutFtr(PUT(g, HDRP(bp), val), bp, val)

\* PUT(HDRP(NEXT_BLKP(bp)), val)
PutNextHdr(g, bp, val) == PUT(g, HDRP(NEXT_BLKP(g, bp)), val)

\* PUT(FTRP(NEXT_BLKP(bp)), val)
PutNextFtr(g, bp, val) == PUT(g, FTRP(g, NEXT_BLKP(g, bp)), val)

(***************************************************************************)
(* add_to_list - find the list that the block fits, and insert it in       *)
(***************************************************************************)
\* The third branch, after its scan sc: insert in the middle or as the last.
add_scanned(g, bp, sc) ==
    IF sc.next # NULL
    THEN Puts(FaultIf(g, sc.flt),
              << <<PTR2NEXTBIAS(bp), P2B(g, sc.next)>>,
                 <<PTR2PREVBIAS(sc.next), P2B(g, bp)>>,
                 <<PTR2NEXTBIAS(sc.prev), P2B(g, bp)>>,
                 <<PTR2PREVBIAS(bp), P2B(g, sc.prev)>> >>)
    ELSE Puts(FaultIf(g, sc.flt),
              << <<PTR2NEXTBIAS(bp), 0>>,
                 <<PTR2NEXTBIAS(sc.prev), P2B(g, bp)>>,
                 <<PTR2PREVBIAS(bp), P2B(g, sc.prev)>> >>)

\* The three branches, for the list with head word head and first node next_ptr.
add_at(g, bp, asize, head, next_ptr) ==
    IF next_ptr = NULL
    THEN Puts(g, << <<PTR2NEXTBIAS(bp), 0>>,
                    <<PTR2PREVBIAS(bp), 0>>,
                    <<head, P2B(g, bp)>> >>)
    ELSE IF ULE(asize, GET_SIZE(g, HDRP(next_ptr)))
    THEN Puts(Load(g, {HDRP(next_ptr)}),
              << <<PTR2NEXTBIAS(bp), P2B(g, next_ptr)>>,
                 <<PTR2PREVBIAS(next_ptr), P2B(g, bp)>>,
                 <<PTR2PREVBIAS(bp), 0>>,
                 <<head, P2B(g, bp)>> >>)
    ELSE add_scanned(g, bp, ScanList(g, asize, NULL, next_ptr, {}))

add_to_list(g, bp, asize) ==
    LET head == SegAddr(g, ListIndex(asize, 0))
    IN  add_at(Load(g, {head}), bp, asize, head, B2P(g, GET(g, head)))

(***************************************************************************)
(* remove_from_list - find the block in which list and remove it           *)
(***************************************************************************)
remove_at(g, head, next_ptr, prev_ptr) ==
    IF prev_ptr = NULL /\ next_ptr = NULL
    THEN PUT(g, head, 0)
    ELSE IF prev_ptr = NULL /\ next_ptr # NULL
    THEN Puts(g, << <<PTR2PREVBIAS(next_ptr), 0>>,
                    <<head, P2B(g, next_ptr)>> >>)
    ELSE IF prev_ptr # NULL /\ next_ptr = NULL
    THEN SET_BIAS(g, PTR2NEXTBIAS(prev_ptr), 0)
    ELSE Puts(g, << <<PTR2NEXTBIAS(prev_ptr), P2B(g, next_ptr)>>,
                    <<PTR2PREVBIAS(next_ptr), P2B(g, prev_ptr)>> >>)

remove_from_list(g, bp, asize) ==
    remove_at(Load(g, {PTR2NEXTBIAS(bp), PTR2PREVBIAS(bp)}),
              SegAddr(g, ListIndex(asize, 0)),
              B2P(g, NEXT_FBP_BIAS(g, bp)),
              B2P(g, PREV_FBP_BIAS(g, bp)))

(***************************************************************************)
(* coalesce - coalesce according to tag bit.  Returns the machine and the  *)
(* pointer to the coalesced block.                                         *)
(***************************************************************************)
\* remove_from_list(NEXT_BLKP(bp), size)
remove_next(g, bp, size) == remove_from_list(g, NEXT_BLKP(g, bp), size)

\* remove_from_list(PREV_BLKP(bp), size)
remove_prev(g, bp, size) == remove_from_list(g, PREV_BLKP(g, bp), size)

\* PUT(HDRP(bp), PACK(asize, 0)); PUT(FTRP(bp), PACK(asize, 0));
\* add_to_list(bp, asize); return bp
coalesce_tail(g, bp, asize) ==
    [g |-> add_to_list(PutHdrFtr(g, bp, PACK(asize, 0)), bp, asize), bp |-> bp]

\* bp = PREV_BLKP(bp), and then as above
coalesce_tail_prev(g, bp, asize) == coalesce_tail(g, PREV_BLKP(g, bp), asize)

coalesce_cases(g, bp, prev_alloc, next_alloc, asize, next_size, prev_size) ==
    IF prev_alloc = 1 /\ next_alloc = 1
    THEN [g |-> g, bp |-> bp]
    ELSE IF prev_alloc = 1 /\ next_alloc = 0
    THEN coalesce_tail(
            remove_next(remove_from_list(g, bp, asize), bp, next_size),
            bp, asize + next_size)
    ELSE IF prev_alloc = 0 /\ next_alloc = 1
    THEN coalesce_tail_prev(
            remove_prev(remove_from_list(g, bp, asize), bp, prev_size),
            bp, asize + prev_size)
    ELSE coalesce_tail_prev(
            remove_next(
                remove_prev(remove_from_list(g, bp, asize), bp, prev_size),
                bp, next_size),
            bp, asize + (next_size + prev_size))

coalesce(g, bp) ==
    coalesce_cases(
        Load(g, {bp - DSIZE, HDRP(PREV_BLKP(g, bp)), HDRP(bp), HDRP(NEXT_BLKP(g, bp))}),
        bp,
        GET_ALLOC(g, HDRP(PREV_BLKP(g, bp))),
        GET_ALLOC(g, HDRP(NEXT_BLKP(g, bp))),
        GET_SIZE(g, HDRP(bp)),
        GET_SIZE(g, HDRP(NEXT_BLKP(g, bp))),
        GET_SIZE(g, HDRP(PREV_BLKP(g, bp))))

(***************************************************************************)
(* place - given free block pointer bp, allocate at least size bytes;      *)
(* split off a new free block if the remainder is at least 16 bytes.       *)
(* Returns the machine; the pointer returned by the C function is bp.      *)
(***************************************************************************)
\* add_to_list(NEXT_BLKP(bp), delta)
add_next(g, bp, delta) == add_to_list(g, NEXT_BLKP(g, bp), delta)

\* The two branches, after remove_from_list(bp, blk_size).
place_cases(g, bp, size, blk_size) ==
    IF ULT(blk_size - size, 2 * DSIZE)
    THEN PutHdrFtr(g, bp, PACK(blk_size, 1))
    ELSE PutNextFtr(
            PutNextHdr(
                add_next(PutHdrFtr(g, bp, PACK(size, 1)), bp, blk_size - size),
                bp, PACK(blk_size - size, 0)),
            bp, PACK(blk_size - size, 0))

place(g, bp, size) ==
    place_cases(remove_from_list(Load(g, {HDRP(bp)}), bp, GET_SIZE(g, HDRP(bp))),
                bp, size, GET_SIZE(g, HDRP(bp)))

(***************************************************************************)
(* extend_heap - extend heap of at least size bytes.  Returns the machine  *)
(* and the pointer to the (coalesced) new free block, NULL on failure.     *)
(***************************************************************************)
\* The statements after a successful mem_sbrk that returned bp.
extend_heap_block(g, bp, asize) ==
    coalesce(
        add_to_list(
            PutNextHdr(PutHdrFtr(g, bp, PACK(asize, 0)), bp, PACK(0, 1)),
            bp, asize),
        bp)

extend_heap(g, size) ==
    LET s == mem_sbrk(g, ALIGN(size))
    IN  IF s.p = -1
        THEN [g |-> g, bp |-> NULL]
        ELSE extend_heap_block(s.g, s.p, ALIGN(size))

(***************************************************************************)
(* mm_init - Initialize the memory manager; -1 on error, 0 on success.     *)
(***************************************************************************)
RECURSIVE PutZeros(_, _, _)
PutZeros(g, p, n) ==
    IF n = 0 THEN g ELSE PutZeros(PUT(g, p, 0), p + WSIZE, n - 1)

\* The list heads, the prologue and the epilogue, with heap_listp = base.
mm_init_words(g, base) ==
    Puts(PutZeros([g EXCEPT !.hl = base], base, 11),
         << <<base + 11 * WSIZE, PACK(DSIZE, 1)>>,
            <<base + 12 * WSIZE, PACK(DSIZE, 1)>>,
            <<base + 13 * WSIZE, PACK(0, 1)>> >>)

\* seg_lists = heap_listp; heap_listp += 12 * WSIZE
mm_init_globals(g, base) == [g EXCEPT !.sl = base, !.hl = base + 12 * WSIZE]

\* if (extend_heap(CHUNKSIZE) == NULL) return -1; return 0
mm_init_ret(x) == [g |-> x.g, ret |-> IF x.bp = NULL THEN -1 ELSE 0]

mm_init(g) ==
    LET s == mem_sbrk(g, 14 * WSIZE)
    IN  IF s.p = -1
        THEN [g |-> [g EXCEPT !.hl = -1], ret |-> -1]
        ELSE mm_init_ret(
                extend_heap(mm_init_globals(mm_init_words(s.g, s.p), s.p), CHUNKSIZE))

\* if (heap_listp == NULL) mm_init();
lazy_init(g) == IF g.hl = NULL THEN mm_init(g).g ELSE g

(***************************************************************************)
(* malloc - the search for a fit (the for loop over the first nine lists,  *)
(* then the last list), heap growth, and placement.                        *)
(***************************************************************************)
RECURSIVE SearchLists(_, _, _)
\* The body of the for loop after the while loop sc of list list_index.
SearchScanned(g, asize, list_index, sc) ==
    IF sc.flt # "none"
    THEN [bp |-> NULL, flt |-> sc.flt, list_index |-> list_index]
    ELSE IF sc.next # NULL
    THEN [bp |-> sc.next, flt |-> "none", list_index |-> list_index]
    ELSE SearchLists(g, asize, list_index + 1)

SearchLists(g, asize, list_index) ==
    IF list_index >= LISTNUM - 1
    THEN [bp |-> NULL, flt |-> "none", list_index |-> list_index]
    ELSE IF ~ULE(asize, 16 * Pow2(list_index))
    THEN SearchLists(g, asize, list_index + 1)
    ELSE IF ~Valid(g, SegAddr(g, list_index))
    THEN [bp |-> NULL, flt |-> "segv", list_index |-> list_index]
    ELSE IF GET(g, SegAddr(g, list_index)) = 0
    THEN SearchLists(g, asize, list_index + 1)
    ELSE SearchScanned(g, asize, list_index,
            ScanList(g, asize, NULL, B2P(g, GET(g, SegAddr(g, list_index))), {}))

\* The scan of the last list, as [bp, flt].
SearchLast(sc) == [bp |-> sc.next, flt |-> sc.flt]

\* if (bp == NULL) search the last list, after the for loop f.
FindLast(g, asize, f) ==
    IF f.flt # "none" \/ f.bp # NULL
    THEN [bp |-> f.bp, flt |-> f.flt]
    ELSE IF ~Valid(g, SegAddr(g, f.list_index))
    THEN [bp |-> NULL, flt |-> "segv"]
    ELSE SearchLast(ScanList(g, asize, NULL,
                             B2P(g, GET(g, SegAddr(g, f.list_index))), {}))

\* The block the search of malloc ends with (NULL: none), lines 186-205.
FindFit(g, asize) == FindLast(g, asize, SearchLists(g, asize, 0))

\* asize = (size <= DSIZE) ? (DSIZE << 1) : (ALIGN(size + DSIZE))
AdjustedSize(size) == IF ULE(size, DSIZE) THEN 2 * DSIZE ELSE ALIGN(size + DSIZE)

\* bp = place(bp, asize); return bp
malloc_place(g, bp, asize) == [g |-> place(g, bp, asize), ret |-> bp]

\* if ((bp = extend_heap(...)) == NULL) return NULL; and then place
malloc_extended(x, asize) ==
    IF x.bp = NULL
    THEN [g |-> x.g, ret |-> NULL]
    ELSE malloc_place(x.g, x.bp, asize)

\* After the search f: place the block found, or extend the heap.
malloc_found(g, asize, f) ==
    IF f.bp # NULL
    THEN malloc_place(FaultIf(g, f.flt), f.bp, asize)
    ELSE malloc_extended(extend_heap(FaultIf(g, f.flt), MAX(asize, CHUNKSIZE)), asize)

\* malloc after the lazy initialisation.
malloc_sized(g, size) ==
    IF size = 0
    THEN [g |-> g, ret |-> NULL]
    ELSE malloc_found(g, AdjustedSize(size), FindFit(g, AdjustedSize(size)))

malloc(g, size) == malloc_sized(lazy_init(g), size)

(***************************************************************************)
(* free - Free a block                                                     *)
(***************************************************************************)
\* The statements of free for a block of size asize.
free_block(g, bp, asize) ==
    coalesce(add_to_list(PutHdrFtr(g, bp, PACK(asize, 0)), bp, asize), bp).g

\* free after the lazy initialisation.
free_sized(g, bp) ==
    IF bp = NULL
    THEN g
    ELSE free_block(Load(g, {HDRP(bp)}), bp, GET_SIZE(g, HDRP(bp)))

free(g, bp) == free_sized(lazy_init(g), bp)

(***************************************************************************)
(* memcpy and memset of the C library, on whole words (every length the    *)
(* allocator passes is a multiple of 8).                                   *)
(***************************************************************************)
WordRange(p, n) == {p + WSIZE * k : k \in 0..((n \div WSIZE) - 1)}

memcpy(g, dst, src, n) ==
    IF g.flt # "none" \/ n = 0 THEN g
    ELSE IF n < 0 \/ ~Valid(g, dst) \/ ~Valid(g, src)
            \/ ~Valid(g, dst + n - WSIZE) \/ ~Valid(g, src + n - WSIZE)
    THEN Fault(g, "segv")
    ELSE IF (dst <= src /\ src < dst + n) \/ (src <= dst /\ dst < src + n)
    THEN Fault(g, "ub")
    ELSE LET keep == (DOMAIN g.mem) \ WordRange(dst, n)
             copy == {q \in WordRange(dst, n) : Fetch(g.mem, q - dst + src) # fresh}
         IN  [g EXCEPT !.mem = [q \in keep \cup copy |->
                IF q \in copy THEN g.mem[q - dst + src] ELSE g.mem[q]]]

memset(g, dst, c, n) ==
    IF g.flt # "none" \/ n = 0 THEN g
    ELSE IF n < 0 \/ ~Valid(g, dst) \/ ~Valid(g, dst + n - WSIZE)
    THEN Fault(g, "segv")
    ELSE LET keep == (DOMAIN g.mem) \ WordRange(dst, n)
             set == IF c = fresh THEN {} ELSE WordRange(dst, n)
         IN  [g EXCEPT !.mem = [q \in keep \cup set |->
                IF q \in set THEN c ELSE g.mem[q]]]

(***************************************************************************)
(* realloc - reallocate the block with new size                            *)
(***************************************************************************)
\* if (size < oldsize) oldsize = size; memcpy; mm_free(oldptr); return newptr
realloc_copy(g, oldptr, newptr, size, oldsize) ==
    [g |-> free(memcpy(g, newptr, oldptr, IF ULT(size, oldsize) THEN size ELSE oldsize),
                oldptr),
     ret |-> newptr]

\* A realloc that releases the old block also when malloc has returned NULL.
realloc_FreesOnFail(m, oldptr) ==
    IF m.ret = NULL
    THEN [g |-> free(m.g, oldptr), ret |-> NULL]
    ELSE realloc_copy(Load(m.g, {HDRP(m.ret), HDRP(oldptr)}), oldptr, m.ret,
                      GET_SIZE(m.g, HDRP(m.ret)) - DSIZE,
                      GET_SIZE(m.g, HDRP(oldptr)) - DSIZE)

\* The statements after newptr = mm_malloc(size), which left m.
realloc_moved(m, oldptr) ==
    IF m.ret = NULL
    THEN [g |-> m.g, ret |-> NULL]
    ELSE realloc_copy(Load(m.g, {HDRP(m.ret), HDRP(oldptr)}), oldptr, m.ret,
                      GET_SIZE(m.g, HDRP(m.ret)) - DSIZE,
                      GET_SIZE(m.g, HDRP(oldptr)) - DSIZE)

\* realloc without its first test: a size of 0 is handed to malloc, and the
\* old block is kept when malloc returns NULL.
realloc_NoZeroCase(g, oldptr, size) ==
    IF oldptr = NULL
    THEN malloc(g, size)
    ELSE realloc_moved(malloc(g, size), oldptr)

realloc(g, oldptr, size) ==
    IF size = 0
    THEN [g |-> free(g, oldptr), ret |-> NULL]
    ELSE IF oldptr = NULL
    THEN malloc(g, size)
    ELSE realloc_moved(malloc(g, size), oldptr)

(***************************************************************************)
(* calloc - simple, just malloc and memset                                 *)
(***************************************************************************)
\* memset(newptr, 0, GET_SIZE(HDRP(newptr))); return newptr
calloc_fill(m) ==
    [g |-> memset(Load(m.g, {HDRP(m.ret)}), m.ret, 0, GET_SIZE(m.g, HDRP(m.ret))),
     ret |-> m.ret]

calloc(g, nmemb, size) == calloc_fill(malloc(g, nmemb * size))

(***************************************************************************)
(* mm_checkheap - check correctness.  dbg_printf expands to nothing (DEBUG *)
(* is not defined), so the only effect of a failed test is error_found = 1 *)
(* and, at the end, exit(0).  A walk yields [flt, error_found].            *)
(***************************************************************************)
mem_heap_lo(g) == HeapLo
mem_heap_hi(g) == g.brk - 1

in_heap(g, p) == p <= mem_heap_hi(g) /\ p >= mem_heap_lo(g)

aligned(p) == ALIGN(p) = p

\* if (heap_listp == NULL) error_found = 1; if (seg_lists == NULL) error_found = 1
CheckGlobals(g) == IF g.hl = NULL \/ g.sl = NULL THEN 1 ELSE 0

\* The four tests on one block of the heap
CheckBlock(g, heap_bp) ==
    \/ GET_SIZE(g, HDRP(heap_bp)) # GET_SIZE(g, FTRP(g, heap_bp))
    \/ GET_ALLOC(g, HDRP(heap_bp)) # GET_ALLOC(g, FTRP(g, heap_bp))
    \/ ~aligned(heap_bp)
    \/ ~in_heap(g, heap_bp)

\* while (GET_SIZE(HDRP(heap_bp)) || !GET_ALLOC(HDRP(heap_bp))) { ... }
\* A header of size 0 that is not allocated makes NEXT_BLKP(heap_bp) =
\* heap_bp: the loop never ends.
RECURSIVE CheckHeapWalk(_, _, _)
CheckHeapWalk(g, heap_bp, error_found) ==
    IF ~Valid(g, HDRP(heap_bp))
    THEN [flt |-> "segv", error_found |-> error_found]
    ELSE IF GET_SIZE(g, HDRP(heap_bp)) = 0 /\ GET_ALLOC(g, HDRP(heap_bp)) = 1
    THEN [flt |-> "none", error_found |-> error_found]
    ELSE IF ~Valid(g, FTRP(g, heap_bp))
    THEN [flt |-> "segv", error_found |-> error_found]
    ELSE IF GET_SIZE(g, HDRP(heap_bp)) = 0
    THEN [flt |-> "hang", error_found |-> 1]
    ELSE CheckHeapWalk(g, NEXT_BLKP(g, heap_bp),
                       IF CheckBlock(g, heap_bp) THEN 1 ELSE error_found)

\* The words the tests on one node of a list read
CheckFreeReads(g, free_bp) ==
    {free_bp - DSIZE, HDRP(PREV_BLKP(g, free_bp)), HDRP(free_bp), PTR2NEXTBIAS(free_bp)}
    \cup (IF GET_ALLOC(g, HDRP(PREV_BLKP(g, free_bp))) = 0
          THEN {}
          ELSE {HDRP(NEXT_BLKP(g, free_bp))})

\* The two tests on one node of list list_index
CheckFree(g, free_bp, list_index) ==
    \/ GET_ALLOC(g, HDRP(PREV_BLKP(g, free_bp))) = 0
    \/ GET_ALLOC(g, HDRP(NEXT_BLKP(g, free_bp))) = 0
    \/ ~(/\ GET_SIZE(g, HDRP(free_bp)) > 8 * Pow2(list_index)
         /\ GET_SIZE(g, HDRP(free_bp)) <= 16 * Pow2(list_index))

\* while (free_bp != NULL) { ...; free_bp = B2P(heap_listp, NEXT_FBP_BIAS(free_bp)); }
RECURSIVE CheckListWalk(_, _, _, _, _)
CheckListWalk(g, list_index, free_bp, seen, error_found) ==
    IF free_bp = NULL
    THEN [flt |-> "none", error_found |-> error_found]
    ELSE IF \E p \in CheckFreeReads(g, free_bp) : ~Valid(g, p)
    THEN [flt |-> "segv", error_found |-> error_found]
    ELSE IF free_bp \in seen
    THEN [flt |-> "hang", error_found |-> error_found]
    ELSE CheckListWalk(g, list_index, B2P(g, NEXT_FBP_BIAS(g, free_bp)),
                       seen \cup {free_bp},
                       IF CheckFree(g, free_bp, list_index) THEN 1 ELSE error_found)

\* for (int list_index = 0; list_index < LISTNUM; ++list_index) { ... }
RECURSIVE CheckLists(_, _, _)
CheckLists(g, list_index, r) ==
    IF r.flt # "none" \/ list_index >= LISTNUM
    THEN r
    ELSE IF ~Valid(g, SegAddr(g, list_index))
    THEN [r EXCEPT !.flt = "segv"]
    ELSE CheckLists(g, list_index + 1,
                    CheckListWalk(g, list_index,
                                  B2P(g, GET(g, SegAddr(g, list_index))),
                                  {}, r.error_found))

mm_checkheap(g) == CheckLists(g, 0, CheckHeapWalk(g, g.hl, CheckGlobals(g)))

(***************************************************************************)
(* The caller.  It asks for the sizes in ReqSizes (negative entries are    *)
(* the sizes 2^64-1, 2^64-8 and 2^64-16), releases and resizes only        *)
(* pointers it holds, and may fill the usable bytes of a block it holds    *)
(* with a pattern that depends on the address: it writes the first two and *)
(* the last of its words, right after it was handed the block.             *)
(***************************************************************************)
ReqSizes == {0, 24, 4080, 5000, -1, -8, -16}
ReallocSizes == {0, 40, -8}
CallocArgs == {<<0, 8>>, <<3, 8>>}
HeapCaps == {0, 14 * WSIZE, 14 * WSIZE + CHUNKSIZE, 14 * WSIZE + MaxChunks * CHUNKSIZE}
FreshWords == {0, 21845}

Pattern(p, k) == 1000000 + p + k

G == [mem |-> mem, brk |-> mem_brk, hl |-> heap_listp, sl |-> seg_lists, flt |-> flt]

Init ==
    /\ mem = << >>
    /\ mem_brk = HeapLo
    /\ heap_listp = NULL
    /\ seg_lists = NULL
    /\ flt = "none"
    /\ mem_max \in HeapCaps
    /\ fresh \in FreshWords
    /\ live = {}
    /\ last = [op |-> "start", a1 |-> 0, a2 |-> 0, ret |-> 0]
    /\ nops = 0

\* A public call returns (or faults): the machine g it leaves becomes the state.
Return(g, op, a1, a2, ret, lv) ==
    /\ flt' = g.flt
    /\ IF g.flt = "none"
       THEN /\ mem' = g.mem
            /\ mem_brk' = g.brk
            /\ heap_listp' = g.hl
            /\ seg_lists' = g.sl
            /\ live' = lv
       ELSE UNCHANGED <<mem, mem_brk, heap_listp, seg_lists, live>>
    /\ last' = [op |-> op, a1 |-> a1, a2 |-> a2,
                ret |-> IF g.flt = "none" THEN ret ELSE NULL]
    /\ nops' = nops + 1
    /\ UNCHANGED <<mem_max, fresh>>

CanCall == flt = "none" /\ nops < MaxOps

\* mm_init() returns r.ret and leaves r.g.
MmInitReturns(r) == Return(r.g, "mm_init", 0, 0, r.ret, live)

MmInit ==
    /\ CanCall
    /\ heap_listp = NULL
    /\ MmInitReturns(mm_init(G))

\* malloc(size) returns r.ret and leaves r.g.
MallocReturns(r, size) ==
    Return(r.g, "malloc", size, 0, r.ret,
           IF r.ret = NULL THEN live ELSE live \cup {r.ret})

MallocOf(Sizes) ==
    /\ CanCall
    /\ Cardinality(live) < MaxLive
    /\ \E size \in Sizes : MallocReturns(malloc(G, size), size)

Malloc == MallocOf(ReqSizes)

Free ==
    /\ CanCall
    /\ \E bp \in live \cup {NULL} :
        Return(free(G, bp), "free", bp, 0, NULL, live \ {bp})

\* realloc(oldptr, size) returns r.ret and leaves r.g.
ReallocReturns(r, oldptr, size) ==
    Return(r.g, "realloc", oldptr, size, r.ret,
           IF size = 0 THEN live \ {oldptr}
           ELSE IF r.ret = NULL THEN live
           ELSE (live \ {oldptr}) \cup {r.ret})

ReallocOf(Sizes) ==
    /\ CanCall
    /\ Cardinality(live) < MaxLive
    /\ \E oldptr \in live \cup {NULL}, size \in Sizes :
        ReallocReturns(realloc(G, oldptr, size), oldptr, size)

Realloc == ReallocOf(ReallocSizes)

\* calloc(nmemb, size) returns r.ret and leaves r.g.
CallocReturns(r, nmemb, size) ==
    Return(r.g, "calloc", nmemb, size, r.ret,
           IF r.ret = NULL THEN live ELSE live \cup {r.ret})

Calloc ==
    /\ CanCall
    /\ Cardinality(live) < MaxLive
    /\ \E c \in CallocArgs : CallocReturns(calloc(G, c[1], c[2]), c[1], c[2])

\* The usable bytes of the block at bp, as its header gives them.
Usable(g, bp) == GET_SIZE(g, HDRP(bp)) - DSIZE

FillWords(g, bp) == {bp, bp + WSIZE, bp + Usable(g, bp) - WSIZE}

Filled(g, bp) ==
    LET W == FillWords(g, bp)
    IN  [g EXCEPT !.mem = [q \in (DOMAIN g.mem) \cup W |->
            IF q \in W THEN Pattern(bp, q - bp) ELSE g.mem[q]]]

UserFill ==
    /\ flt = "none"
    /\ last.op \in {"malloc", "realloc", "calloc"}
    /\ \E bp \in live \cap {last.ret} :
        /\ Valid(G, HDRP(bp))
        /\ GET_ALLOC(G, HDRP(bp)) = 1
        /\ GET_SIZE(G, HDRP(bp)) >= 2 * DSIZE
        /\ Valid(G, FTRP(G, bp))
        /\ mem' = Filled(G, bp).mem
        /\ mem' # mem
        /\ last' = [op |-> "fill", a1 |-> bp, a2 |-> 0, ret |-> 0]
        /\ UNCHANGED <<mem_brk, heap_listp, seg_lists, flt, mem_max, fresh, live, nops>>

\* mm_checkheap(lineno) ends with r: it returns, or if (error_found) exit(0)
\* ends the process, or a load of the walk faults.
CheckHeapEnds(r) ==
    /\ flt' = IF r.flt # "none" THEN r.flt
              ELSE IF r.error_found = 1 THEN "exit"
              ELSE "none"
    /\ last' = [op |-> "mm_checkheap", a1 |-> 0, a2 |-> r.error_found, ret |-> 0]
    /\ nops' = nops + 1
    /\ UNCHANGED <<mem, mem_brk, heap_listp, seg_lists, mem_max, fresh, live>>

CheckHeap ==
    /\ CanCall
    /\ CheckHeapEnds(mm_checkheap(G))

Next == MmInit \/ Malloc \/ Free \/ Realloc \/ Calloc \/ UserFill

Spec == Init /\ [][Next]_vars

\* The calls init, allocate, release and resize alone (no zero_allocate).
NextCore == MmInit \/ Malloc \/ Free \/ Realloc \/ UserFill

SpecCore == Init /\ [][NextCore]_vars

\* The same calls with sizes whose adjusted size does not wrap.
SaneSizes == {size \in ReqSizes : size >= 0}
SaneReallocSizes == {size \in ReallocSizes : size >= 0}

MallocSane == MallocOf(SaneSizes)
ReallocSane == ReallocOf(SaneReallocSizes)

NextSane == MmInit \/ MallocSane \/ Free \/ ReallocSane \/ UserFill

SpecSane == Init /\ [][NextSane]_vars

\* The calls of SpecSane and of Spec, and the checker.
NextSaneCheck == MmInit \/ MallocSane \/ Free \/ ReallocSane \/ UserFill \/ CheckHeap

SpecSaneCheck == Init /\ [][NextSaneCheck]_vars

NextCheck == MmInit \/ Malloc \/ Free \/ Realloc \/ Calloc \/ UserFill \/ CheckHeap

SpecCheck == Init /\ [][NextCheck]_vars

(***************************************************************************)
(* Reading the heap: the physical chain of blocks and the free lists.      *)
(***************************************************************************)
\* mm_init has run and obtained the table and the sentinels.
Initialized == heap_listp # NULL /\ heap_listp # -1 /\ seg_lists # NULL

\* The payload address of the first block: the block after the prologue.
FirstBlock(g) == g.hl + DSIZE

\* The blocks reached from bp by stepping by the header's size, up to the
\* first header of size 0 (or the end of the region).
RECURSIVE Chain(_, _)
Chain(g, bp) ==
    IF ~Valid(g, HDRP(bp)) \/ GET_SIZE(g, HDRP(bp)) = 0
    THEN << >>
    ELSE <<bp>> \o Chain(g, NEXT_BLKP(g, bp))

RECURSIVE ChainEnd(_, _)
ChainEnd(g, bp) ==
    IF ~Valid(g, HDRP(bp)) \/ GET_SIZE(g, HDRP(bp)) = 0
    THEN bp
    ELSE ChainEnd(g, NEXT_BLKP(g, bp))

Blocks(g) == Chain(g, FirstBlock(g))
BlockSet(g) == {Blocks(g)[i] : i \in 1..Len(Blocks(g))}

IsFree(g, bp) == GET_ALLOC(g, HDRP(bp)) = 0
BlockSize(g, bp) == GET_SIZE(g, HDRP(bp))

\* The nodes of list list_index from its head, following the next fields;
\* the walk stops at a node it has seen or that lies outside the region.
RECURSIVE ListFrom(_, _, _)
ListFrom(g, ptr, seen) ==
    IF ptr = NULL \/ ptr \in seen \/ ~Valid(g, ptr) \/ ~Valid(g, PTR2NEXTBIAS(ptr))
    THEN << >>
    ELSE <<ptr>> \o ListFrom(g, B2P(g, NEXT_FBP_BIAS(g, ptr)), seen \cup {ptr})

ListOf(g, list_index) == ListFrom(g, B2P(g, GET(g, SegAddr(g, list_index))), {})

\* The machine after the step.
GN == [mem |-> mem', brk |-> mem_brk', hl |-> heap_listp', sl |-> seg_lists', flt |-> flt']

\* The chain of blocks ends in the end sentinel, the last word of the region,
\* and every block on the way has a size >= 16 and a footer equal to its header.
Tiled(g) ==
    /\ HDRP(ChainEnd(g, FirstBlock(g))) = g.brk - WSIZE
    /\ GET(g, HDRP(ChainEnd(g, FirstBlock(g)))) = PACK(0, 1)
    /\ \A bp \in BlockSet(g) :
        /\ BlockSize(g, bp) % 8 = 0
        /\ BlockSize(g, bp) >= 2 * DSIZE
        /\ GET(g, FTRP(g, bp)) = GET(g, HDRP(bp))

\* Every free block lies between two allocated ones (a block, the prologue
\* or the end sentinel).
NoAdjacentFree(g) ==
    \A bp \in BlockSet(g) :
        IsFree(g, bp) =>
            /\ GET_ALLOC(g, bp - DSIZE) = 1
            /\ GET_ALLOC(g, HDRP(NEXT_BLKP(g, bp))) = 1

ListSet(g, k) == {ListOf(g, k)[j] : j \in 1..Len(ListOf(g, k))}

\* Free blocks are exactly the members of the list of their class, once each,
\* and every list ascends in size.
ListsMatch(g) ==
    /\ \A bp \in BlockSet(g) :
        \A k \in 0..(LISTNUM - 1) :
            (bp \in ListSet(g, k)) <=> (IsFree(g, bp) /\ k = ListIndex(BlockSize(g, bp), 0))
    /\ \A k \in 0..(LISTNUM - 1) :
        /\ ListSet(g, k) \subseteq BlockSet(g)
        /\ \A j \in 1..Len(ListOf(g, k)) :
            /\ ListIndex(BlockSize(g, ListOf(g, k)[j]), 0) = k
            /\ j > 1 => BlockSize(g, ListOf(g, k)[j - 1]) <= BlockSize(g, ListOf(g, k)[j])

(***************************************************************************)
(* C1: every successful allocate(n), n >= 1 taken from the whole size      *)
(* type, returns a block whose usable size (block size minus 8) is >= n    *)
(* and a multiple of 8, at an 8-byte aligned payload address.              *)
(***************************************************************************)
C1_UsableSize ==
    (flt = "none" /\ last.op = "malloc" /\ last.ret # NULL) =>
        /\ ULE(last.a1, Usable(G, last.ret))
        /\ Usable(G, last.ret) % 8 = 0
        /\ last.ret % 8 = 0

(***************************************************************************)
(* C2: after init and any sequence of allocate, release and resize calls   *)
(* on live pointers, the blocks tile the heap up to the end sentinel in    *)
(* the last word, each of size a multiple of 8 and >= 16, footer equal to  *)
(* header.                                                                 *)
(***************************************************************************)
C2_Tiling == (flt = "none" /\ Initialized) => Tiled(G)

(***************************************************************************)
(* C3: after init, allocate, release or resize returns, no two physically  *)
(* adjacent blocks are both free.                                          *)
(***************************************************************************)
C3_NoAdjacentFree == (flt = "none" /\ Initialized) => NoAdjacentFree(G)

(***************************************************************************)
(* C4: at every public-call boundary every free block is in exactly the    *)
(* list of its size class, every allocated block in none, and every list   *)
(* is in non-decreasing order of size.                                     *)
(***************************************************************************)
C4_ListMembership == (flt = "none" /\ Initialized) => ListsMatch(G)

(***************************************************************************)
(* C5: pointer stability: a public call on other pointers changes neither  *)
(* the header (size and allocated flag) nor any payload word of a block    *)
(* the caller holds.                                                       *)
(***************************************************************************)
HeldBlock(g, p) ==
    /\ Valid(g, HDRP(p))
    /\ GET_ALLOC(g, HDRP(p)) = 1
    /\ GET_SIZE(g, HDRP(p)) >= 2 * DSIZE

Untouched(p) ==
    /\ GET(GN, HDRP(p)) = GET(G, HDRP(p))
    /\ \A q \in (DOMAIN mem) \cup (DOMAIN mem') :
        (q >= p /\ q < p + Usable(G, p)) => Fetch(mem', q) = Fetch(mem, q)

StableStep ==
    (flt' = "none" /\ last'.op \in {"malloc", "free", "realloc", "calloc"}) =>
        \A p \in live :
            (HeldBlock(G, p) /\ ~(last'.op \in {"free", "realloc"} /\ last'.a1 = p))
                => Untouched(p)

C5_PointerStability == [][StableStep]_vars

(***************************************************************************)
(* C6: on an initialized heap allocate(n) returns null exactly when n = 0  *)
(* or no free block of size >= asize exists and the growth request is      *)
(* refused; the heap grows at most once per call, by the one request; and  *)
(* when null is returned memory is unchanged.                              *)
(***************************************************************************)
FitExists(g, asize) ==
    \E bp \in BlockSet(g) : IsFree(g, bp) /\ ULE(asize, BlockSize(g, bp))

GrowthRefused(g, asize) == SbrkFails(g, ALIGN(MAX(asize, CHUNKSIZE)))

NullExactly ==
    (Initialized /\ flt' = "none" /\ last'.op = "malloc") =>
        LET n == last'.a1
            asize == AdjustedSize(n)
        IN  /\ (last'.ret = NULL) <=>
                    (n = 0 \/ (~FitExists(G, asize) /\ GrowthRefused(G, asize)))
            /\ mem_brk' \in {mem_brk, mem_brk + ALIGN(MAX(asize, CHUNKSIZE))}
            /\ last'.ret = NULL => (mem' = mem /\ mem_brk' = mem_brk)

C6_NullExactly == [][NullExactly]_vars

(***************************************************************************)
(* C7: a successful zero_allocate(count, size) zeroes exactly the usable   *)
(* bytes of the returned block and nothing else: the state it leaves is    *)
(* the one allocate leaves, with the payload of the block set to zero.     *)
(***************************************************************************)
ZeroesPayloadOnly ==
    (flt = "none" /\ last'.op = "calloc") =>
        LET m == malloc(G, last'.a1 * last'.a2)
        IN  (m.g.flt = "none" /\ m.ret # NULL) =>
                /\ flt' = "none"
                /\ last'.ret = m.ret
                /\ mem' = memset(m.g, m.ret, 0, Usable(m.g, m.ret)).mem
                /\ GET(GN, FTRP(GN, m.ret)) = GET(GN, HDRP(m.ret))

C7_ZeroesPayloadOnly == [][ZeroesPayloadOnly]_vars

(***************************************************************************)
(* C8: zero_allocate returns null, writes nothing and does not crash when  *)
(* the underlying allocation yields null (count * size = 0, or growth      *)
(* refused).                                                               *)
(***************************************************************************)
NullPassedOn ==
    (flt = "none" /\ last'.op = "calloc") =>
        LET m == malloc(G, last'.a1 * last'.a2)
        IN  (m.g.flt = "none" /\ m.ret = NULL) =>
                /\ flt' = "none"
                /\ last'.ret = NULL
                /\ mem' = m.g.mem

C8_NullPassedOn == [][NullPassedOn]_vars

(***************************************************************************)
(* C9: a successful resize(p, new_size), new_size >= 1, of a live p        *)
(* returns q # p whose block is allocated and holds the first              *)
(* min(old usable, new usable) bytes of p's payload, and leaves p's former *)
(* block free.                                                             *)
(***************************************************************************)
InFreeBlock(g, p) ==
    \E bp \in BlockSet(g) : IsFree(g, bp) /\ bp <= p /\ p < bp + BlockSize(g, bp)

ResizeMoves ==
    (flt = "none" /\ flt' = "none" /\ last'.op = "realloc" /\ last'.a1 # NULL
        /\ last'.a2 # 0 /\ last'.ret # NULL /\ HeldBlock(G, last'.a1)) =>
        LET p == last'.a1
            q == last'.ret
            keep == MIN(Usable(G, p), Usable(GN, q))
        IN  /\ q # p
            /\ HeldBlock(GN, q)
            /\ q \in BlockSet(GN)
            /\ \A k \in 0..((keep \div WSIZE) - 1) :
                    GET(GN, q + WSIZE * k) = GET(G, p + WSIZE * k)
            /\ InFreeBlock(GN, p)

C9_ResizeMoves == [][ResizeMoves]_vars

(***************************************************************************)
(* C10: resize(p, 0) returns null and leaves the state release(p) leaves;  *)
(* resize(null, n) returns what allocate(n) returns and leaves the state   *)
(* allocate(n) leaves.                                                     *)
(***************************************************************************)
Leaves(g, ret) ==
    /\ flt' = g.flt
    /\ g.flt = "none" =>
        /\ mem' = g.mem
        /\ mem_brk' = g.brk
        /\ heap_listp' = g.hl
        /\ seg_lists' = g.sl
        /\ last'.ret = ret

ResizeDegenerates ==
    (flt = "none" /\ last'.op = "realloc") =>
        /\ last'.a2 = 0 => Leaves(free(G, last'.a1), NULL)
        /\ last'.a1 = NULL =>
            Leaves(malloc(G, last'.a2).g, malloc(G, last'.a2).ret)

C10_ResizeDegenerates == [][ResizeDegenerates]_vars

C10_Witness ==
    /\ flt = "none" /\ Initialized
    /\ last.op = "realloc" /\ last.a1 # NULL /\ last.a2 = 0
    /\ \E bp \in BlockSet(G) : IsFree(G, bp) /\ bp <= last.a1 /\ last.a1 < bp + BlockSize(G, bp)

(***************************************************************************)
(* C11  The checker has no false positives: run on a heap that mm_init set *)
(* up and whose blocks tile the region, with no two free neighbours and    *)
(* every free block in the list of its class, mm_checkheap finds no error. *)
(***************************************************************************)
Healthy(g) == Tiled(g) /\ NoAdjacentFree(g) /\ ListsMatch(g)

C11_NoFalsePositive ==
    (last.op = "mm_checkheap" /\ Initialized /\ Healthy(G))
        => (last.a2 = 0 /\ flt = "none")

(***************************************************************************)
(* C12  A check that finds an error returns to its caller: the process is  *)
(* not terminated, so another public call can follow.                      *)
(***************************************************************************)
C12_CheckReturns ==
    (last.op = "mm_checkheap" /\ Initialized /\ last.a2 = 1) => flt = "none"

(***************************************************************************)
(* C13  Releasing two physically adjacent live blocks a and b in either    *)
(* order ends in the same heap (same blocks, same list-head table, same    *)
(* lists in the same order), with one free block over both extents.        *)
(***************************************************************************)
SameHeap(g1, g2) ==
    /\ g1.flt = "none" /\ g2.flt = "none"
    /\ g1.brk = g2.brk /\ g1.hl = g2.hl /\ g1.sl = g2.sl
    /\ Blocks(g1) = Blocks(g2)
    /\ \A bp \in BlockSet(g1) :
        /\ GET(g1, HDRP(bp)) = GET(g2, HDRP(bp))
        /\ GET(g1, FTRP(g1, bp)) = GET(g2, FTRP(g2, bp))
    /\ \A k \in 0..(LISTNUM - 1) :
        /\ GET(g1, SegAddr(g1, k)) = GET(g2, SegAddr(g2, k))
        /\ ListOf(g1, k) = ListOf(g2, k)

\* One free block of g spans the bytes from header lo to the end hi.
Covered(g, lo, hi) ==
    \E bp \in BlockSet(g) :
        IsFree(g, bp) /\ HDRP(bp) <= lo /\ HDRP(bp) + BlockSize(g, bp) >= hi

AdjacentLive(g, a, b) ==
    a \in live /\ b \in live /\ a # b /\ NEXT_BLKP(g, a) = b

ReleaseCommutes(g, a, b) ==
    /\ SameHeap(free(free(g, a), b), free(free(g, b), a))
    /\ Covered(free(free(g, a), b), HDRP(a), HDRP(b) + BlockSize(g, b))

C13_ReleaseCommutes ==
    flt = "none" =>
        \A a \in live : \A b \in live :
            AdjacentLive(G, a, b) => ReleaseCommutes(G, a, b)

(***************************************************************************)
(* C14  When the backing store cannot hand out the table, the sentinels    *)
(* and the first chunk, mm_init returns -1, and malloc, whether it runs    *)
(* the initialization itself or follows the failed one, returns NULL       *)
(* without a fault.                                                        *)
(***************************************************************************)
InitRefused == mem_max < 14 * WSIZE + CHUNKSIZE

C14_InitFailure ==
    InitRefused =>
        /\ last.op = "mm_init" => (flt = "none" /\ last.ret = -1)
        /\ last.op = "malloc" => (flt = "none" /\ last.ret = NULL)

(***************************************************************************)
(* C15  At every call boundary the links are well formed: a nonzero offset *)
(* in the head table or in a free block's prev or next field decodes to    *)
(* the payload of a free block of the chain; no block has offset 0; the    *)
(* prev field of a list's head is 0; x.next = y exactly when y.prev = x;   *)
(* and every list ends (no cycle).                                         *)
(***************************************************************************)
FreeSet(g) == {bp \in BlockSet(g) : IsFree(g, bp)}

\* The offset bias is null or decodes to a free block of the chain.
DecodesFree(g, bias) == bias # 0 => B2P(g, bias) \in FreeSet(g)

\* List k ends: its head is null, or the next field of the last node the
\* walk reaches is null.
ListEnds(g, k) ==
    IF GET(g, SegAddr(g, k)) = 0 THEN TRUE
    ELSE /\ ListOf(g, k) # << >>
         /\ NEXT_FBP_BIAS(g, ListOf(g, k)[Len(ListOf(g, k))]) = 0

LinksWellFormed(g) ==
    /\ \A k \in 0..(LISTNUM - 1) :
        /\ DecodesFree(g, GET(g, SegAddr(g, k)))
        /\ GET(g, SegAddr(g, k)) # 0 =>
               PREV_FBP_BIAS(g, B2P(g, GET(g, SegAddr(g, k)))) = 0
        /\ ListEnds(g, k)
    /\ \A bp \in BlockSet(g) : P2B(g, bp) # 0
    /\ \A x \in FreeSet(g) :
        /\ DecodesFree(g, PREV_FBP_BIAS(g, x))
        /\ DecodesFree(g, NEXT_FBP_BIAS(g, x))
        /\ \A y \in FreeSet(g) :
            (NEXT_FBP_BIAS(g, x) = P2B(g, y)) <=> (PREV_FBP_BIAS(g, y) = P2B(g, x))

C15_LinksWellFormed == (flt = "none" /\ Initialized) => LinksWellFormed(G)

(***************************************************************************)
(* C16  The block a call of malloc, realloc or calloc returns overlaps no  *)
(* block that was returned earlier and is still held, and lies between the *)
(* prologue and the end sentinel (so also behind the head table).          *)
(***************************************************************************)
\* The bytes [header, footer] of the blocks at p and at q do not meet.
Disjoint(g, p, q) ==
    \/ HDRP(p) + BlockSize(g, p) <= HDRP(q)
    \/ HDRP(q) + BlockSize(g, q) <= HDRP(p)

\* The block at p lies behind the prologue and before the end sentinel.
Inside(g, p) ==
    /\ HDRP(p) >= g.hl + WSIZE
    /\ HDRP(p) + BlockSize(g, p) <= g.brk - WSIZE

\* The blocks still held when the call that just returned hands out its block
StillHeld == IF last'.op = "realloc" THEN live \ {last'.a1} ELSE live

NoOverlap ==
    (last'.op \in {"malloc", "realloc", "calloc"} /\ flt' = "none" /\ last'.ret # NULL)
        => /\ Inside(GN, last'.ret)
           /\ \A p \in StillHeld : p # last'.ret /\ Disjoint(GN, last'.ret, p)

C16_NoOverlap == [][NoOverlap]_vars

(***************************************************************************)
(* C17  malloc's search is a global best fit: when some free block has a   *)
(* size >= asize, the heap is not grown and the block handed out is a free *)
(* block of the smallest size >= asize among the free blocks of all lists. *)
(***************************************************************************)
\* The free blocks of g that are large enough for asize
Fits(g, asize) == {bp \in FreeSet(g) : ULE(asize, BlockSize(g, bp))}

BestFit ==
    (last'.op = "malloc" /\ last'.a1 # 0 /\ Initialized
        /\ Fits(G, AdjustedSize(last'.a1)) # {})
    => /\ flt' = "none"
       /\ mem_brk' = mem_brk
       /\ last'.ret \in Fits(G, AdjustedSize(last'.a1))
       /\ \A bp \in Fits(G, AdjustedSize(last'.a1)) :
            BlockSize(G, last'.ret) <= BlockSize(G, bp)

C17_BestFit == [][BestFit]_vars

(***************************************************************************)
(* C18  place splits exactly when the remainder is at least 16 bytes: for  *)
(* a candidate of size s at bp and a request asize, if s - asize < 16 the  *)
(* block keeps size s and no free block appears; otherwise the block at bp *)
(* has size asize and a free block of size s - asize follows it and is a   *)
(* member of the list of its class.  The block malloc returns has size     *)
(* asize or asize + 8.                                                     *)
(***************************************************************************)
\* The size of the candidate malloc hands to place: the free block found,
\* or, when the heap grew, the block that ends at the new end sentinel.
CandidateSize(bp) ==
    IF mem_brk' = mem_brk THEN BlockSize(G, bp) ELSE mem_brk' - bp

Placed(bp, asize, s) ==
    /\ GET_ALLOC(GN, HDRP(bp)) = 1
    /\ GET(GN, FTRP(GN, bp)) = GET(GN, HDRP(bp))
    /\ BlockSize(GN, bp) \in {asize, asize + DSIZE}
    /\ IF s - asize < 2 * DSIZE
       THEN /\ BlockSize(GN, bp) = s
            /\ FreeSet(GN) = FreeSet(G) \ {bp}
       ELSE /\ BlockSize(GN, bp) = asize
            /\ bp + asize \in FreeSet(GN)
            /\ BlockSize(GN, bp + asize) = s - asize
            /\ bp + asize \in ListSet(GN, ListIndex(s - asize, 0))
            /\ FreeSet(GN) \ {bp + asize} = FreeSet(G) \ {bp}

SplitRule ==
    (last'.op = "malloc" /\ Initialized /\ flt' = "none" /\ last'.ret # NULL)
        => Placed(last'.ret, AdjustedSize(last'.a1), CandidateSize(last'.ret))

C18_SplitRule == [][SplitRule]_vars

(***************************************************************************)
(* C19  The region never shrinks.  A malloc on an initialized heap that    *)
(* moves the break adds exactly max(asize, 4096) bytes; afterwards the end *)
(* sentinel is the last word of the region, and the block handed to place  *)
(* starts at the free block that preceded the old sentinel (or at the old  *)
(* break) and runs to the new sentinel: its size is the bytes added plus   *)
(* the size of that free block, which is >= asize.                         *)
(***************************************************************************)
\* The size of the free block that ends at the end sentinel of g, or 0.
TailFree(g) ==
    IF GET_ALLOC(g, g.brk - DSIZE) = 0 THEN GET_SIZE(g, g.brk - DSIZE) ELSE 0

Grown(bp, asize) ==
    /\ mem_brk' - mem_brk = MAX(asize, CHUNKSIZE)
    /\ (mem_brk' - mem_brk) % ALIGNMENT = 0
    /\ GET(GN, mem_brk' - WSIZE) = PACK(0, 1)
    /\ bp = mem_brk - TailFree(G)
    /\ CandidateSize(bp) = (mem_brk' - mem_brk) + TailFree(G)
    /\ ULE(asize, CandidateSize(bp))
    /\ ChainEnd(GN, bp) = mem_brk'

GrowthStep ==
    /\ mem_brk' >= mem_brk
    /\ (last'.op = "malloc" /\ Initialized /\ flt' = "none" /\ mem_brk' # mem_brk)
        => Grown(last'.ret, AdjustedSize(last'.a1))

C19_Growth == [][GrowthStep]_vars

(***************************************************************************)
(* C20  A realloc(p, n) with p # NULL and n >= 1 returns NULL only when    *)
(* the backing store refuses growth, and then p's block stays as it was:   *)
(* same header (size and allocated bit), same address, same payload; the   *)
(* free lists, and every word of the heap, are unchanged, and the caller   *)
(* still holds p.                                                          *)
(***************************************************************************)
ResizeRefused ==
    /\ last'.op = "realloc" /\ last'.a1 # NULL /\ last'.a2 # 0
    /\ flt' = "none" /\ last'.ret = NULL

ResizeFailsClean ==
    ResizeRefused =>
        /\ GrowthRefused(G, AdjustedSize(last'.a2))
        /\ GET(GN, HDRP(last'.a1)) = GET(G, HDRP(last'.a1))
        /\ Blocks(GN) = Blocks(G)
        /\ mem' = mem
        /\ mem_brk' = mem_brk /\ heap_listp' = heap_listp /\ seg_lists' = seg_lists
        /\ \A k \in 0..(LISTNUM - 1) : ListOf(GN, k) = ListOf(G, k)
        /\ live' = live /\ last'.a1 \in live'

C20_ResizeFailsClean == [][ResizeFailsClean]_vars

\* A refused realloc of a block whose payload the caller had filled
C20_Witness ==
    /\ last.op = "realloc" /\ last.a1 # NULL /\ last.a2 # 0
    /\ flt = "none" /\ last.ret = NULL
    /\ last.a1 \in live
    /\ Healthy(G)
    /\ last.a1 \in BlockSet(G) /\ GET_ALLOC(G, HDRP(last.a1)) = 1
    /\ GET(G, last.a1) = Pattern(last.a1, 0)
    /\ GrowthRefused(G, AdjustedSize(last.a2))

=============================================================================
